---- MODULE Spec2Model ----
(***************************************************************************)
(* A model of the TETRA band sweeper of src/src/main.rs: the instant sweep *)
(* (run_instant_scan), the time-budgeted sweep (run_scan_over_duration),   *)
(* the capture (scan_freq) and the per-sample estimate (analyze_samples).  *)
(*                                                                         *)
(* Numbers.  An f64 strength is kept in thousandths of a dB (49.0 is       *)
(* 49000).  An Instant is a number of clock ticks, TicksPerSec ticks to    *)
(* the second, so that a capture can end between two whole seconds.        *)
(* An Option is a sequence: << >> is None and <<v>> is Some(v).            *)
(***************************************************************************)
EXTENDS Integers, Sequences, FiniteSets, TLC

VARIABLES
    instant_scan,          \* Config.instant_scan
    start_after_duration,  \* Config.start_after_duration
    scan_duration,         \* Config.scan_duration
    pc,                    \* position of the single flow of control
    clock,                 \* the monotonic clock read by Instant::now(), in ticks
    i,                     \* the countdown's loop variable
    scan_start_time,       \* run_scan_over_duration: scan_start_time
    freq,                  \* the loop variable of the frequency loop, in Hz
    open_handles,          \* the number of HackRfOne handles that are open
    start_time,            \* scan_freq: start_time of the last capture, as an Option
    raw_samples,           \* the buffer the last capture returned
    max_strength,          \* the peak of the last capture, as an Option
    count,                 \* run_instant_scan: count
    results,               \* run_instant_scan: results (key -> JSON object)
    freq_data_vec,         \* run_scan_over_duration: freq_data_vec
    freq_id_map,           \* run_scan_over_duration: freq_id_map (Hz -> index)
    file,                  \* the document written to disk, as an Option
    captures,              \* history: the number of calls of scan_freq so far
    qualifying,            \* history: the captures whose peak was above 49.0
    tape,                  \* history: the buffer the adapter returned per frequency
    run,                   \* 1 in the first run of the process, 2 in a re-run
    prev_file,             \* the document the first run wrote, as an Option
    input_samples,         \* analyze_samples called on its own: its argument
    estimates              \* analyze_samples called on its own: its result, as an Option

vars == <<instant_scan, start_after_duration, scan_duration, pc, clock, i,
          scan_start_time, freq, start_time, raw_samples, max_strength, count,
          results, freq_data_vec, freq_id_map, file, captures, qualifying,
          tape, run, prev_file, open_handles, input_samples, estimates>>

---------------------------------------------------------------------------
(* Bounds of the model *)

\* clock ticks per second
TicksPerSec == 2
\* the band is cut to BandSteps + 1 frequencies, from start_freq upwards
BandSteps == 1
\* the largest scan_duration of the configuration, in seconds
MaxScanDuration == 3
\* the largest start_after_duration of the configuration, in seconds
MaxStartAfter == 1
\* the longest argument of analyze_samples when it is called on its own
MaxAnalyzeLen == 3

---------------------------------------------------------------------------
(* Program constants *)

start_freq == 380000000
step == 1000000
\* the source's band ends at 420000000; the model sweeps its first BandSteps + 1
\* frequencies
end_freq == start_freq + BandSteps * step
\* the end of the source's band
full_end_freq == 420000000
\* max > 49.0
Threshold == 49000
\* Duration::from_secs(1), in seconds
duration_secs == 1

None == << >>
Some(v) == <<v>>

\* the byte values a modelled buffer holds (u8 samples)
ByteValues == {0, 255}

\* the lengths of the buffers a capture returns: empty, one sample, two samples
BufferLengths == {0, 1, 2}

\* the buffers scan_freq can return
SampleBuffers == UNION {[1..n -> ByteValues] : n \in BufferLengths}

\* a successful call of scan_freq, or of the countdown's sleep, lasts the
\* requested second or a tick more
Latencies == {duration_secs * TicksPerSec, duration_secs * TicksPerSec + 1}

---------------------------------------------------------------------------
(* analyze_samples and the peak *)

\* 20.0 * log10(sample) in thousandths of a dB, rounded down, for the samples
\* the model uses
Log10x20(sample) ==
    CASE sample = 1 -> 0
      [] sample = 10 -> 20000
      [] sample = 100 -> 40000
      [] sample = 255 -> 48130

\* SampleDb, were the estimate 20 * log10 of the sample's square
SampleDbSquared(sample) == IF sample > 0 THEN 2 * Log10x20(sample) ELSE 0

\* SampleDb, were the estimate 10 * log10(sample)
SampleDbPower(sample) == IF sample > 0 THEN Log10x20(sample) \div 2 ELSE 0

\* the closure of analyze_samples: one sample's estimate
SampleDb(sample) == IF sample > 0 THEN Log10x20(sample) ELSE 0

analyze_samples(samples) == [k \in 1..Len(samples) |-> SampleDb(samples[k])]

\* MaxBy, were the peak of no estimates 0.0 instead of None
MaxByOrZero(strengths) ==
    IF strengths = << >> THEN Some(0)
    ELSE Some(CHOOSE m \in {strengths[k] : k \in 1..Len(strengths)} :
                  \A k \in 1..Len(strengths) : strengths[k] <= m)

\* .iter().max_by(partial_cmp).copied()
MaxBy(strengths) ==
    IF strengths = << >> THEN None
    ELSE Some(CHOOSE m \in {strengths[k] : k \in 1..Len(strengths)} :
                  \A k \in 1..Len(strengths) : strengths[k] <= m)

\* Qualifies, were the threshold test not strict
QualifiesAtThreshold(max) == max >= Threshold

\* Qualifies, were the threshold one a byte's estimate can pass
QualifiesLow(max) == max > 48000

\* if max > 49.0
Qualifies(max) == max > Threshold

\* freq as f64 / 1_000_000.0
MHz(f) == f \div 1000000

\* the frequencies of the band: (start_freq..=end_freq).step_by(step)
Band == {start_freq + k * step : k \in 0..((end_freq - start_freq) \div step)}

\* Instant::now().duration_since(scan_start_time), in ticks
Elapsed(now) == now - scan_start_time

\* Duration::as_secs(): whole seconds, rounded down
AsSecs(ticks) == ticks \div TicksPerSec

\* a map with one more entry (HashMap::insert)
Insert(map, key, value) ==
    [k \in DOMAIN map \cup {key} |-> IF k = key THEN value ELSE map[k]]

\* history: a capture of frequency f that began at whole second t0 and ended at
\* whole second t, and whose peak was above 49.0, is appended to the list of
\* qualifying captures
Observe(log, f, t0, t, max, n) ==
    IF max # None /\ max[1] > 49000
    THEN Append(log, [freq |-> f, t0 |-> t0, t |-> t, strength |-> max[1],
                      sample_count |-> n])
    ELSE log

\* HackRfOne::new(): one more handle is open
Acquire(handles) == handles + 1

\* Release, were the handle kept open after the capture
ReleaseLeak(handles) == handles

\* the capture consumed the handle; it is dropped when scan_freq returns
Release(handles) == handles - 1

\* PastBand, were the range start_freq..last, without its end
PastBandExclusive(f, last) == f >= last

\* the inclusive range start_freq..=last is exhausted at frequency f
PastBand(f, last) == f > last

---------------------------------------------------------------------------
(* The start of the process: main reads the configuration and enters one mode *)

\* (run_instant_scan takes neither duration: they are 0 in instant mode)
Init ==
    /\ instant_scan \in BOOLEAN
    /\ start_after_duration \in (IF instant_scan THEN {0} ELSE 0..MaxStartAfter)
    /\ scan_duration \in (IF instant_scan THEN {0} ELSE 0..MaxScanDuration)
    /\ pc = IF instant_scan THEN "instant_for" ELSE "countdown"
    /\ clock = 0
    /\ i = start_after_duration
    /\ scan_start_time = 0
    /\ freq = start_freq
    /\ start_time = None
    /\ raw_samples = << >>
    /\ max_strength = None
    /\ count = 1
    /\ results = << >>
    /\ freq_data_vec = << >>
    /\ freq_id_map = << >>
    /\ file = None
    /\ captures = 0
    /\ qualifying = << >>
    /\ tape = << >>
    /\ run = 1
    /\ prev_file = None
    /\ open_handles = 0
    /\ input_samples = << >>
    /\ estimates = None

---------------------------------------------------------------------------
(* run_instant_scan *)

\* the entry of a detection
InstantEntry(f, max, n) ==
    [freq |-> MHz(f), strength |-> max, sample_count |-> n]

\* the threshold test of one capture and the insertion under the counter's key
InstantInsert(map, cnt, f, max, n) ==
    IF max # None /\ Qualifies(max[1])
    THEN Insert(map, ToString(cnt), InstantEntry(f, max[1], n))
    ELSE map

\* InstantCount, were the counter never advanced
InstantCountStuck(cnt, max) == cnt

\* the counter after one capture
InstantCount(cnt, max) ==
    IF max # None /\ Qualifies(max[1]) THEN cnt + 1 ELSE cnt

\* the start of an iteration of the loop over the band: HackRfOne::new()
\* returned the handle
InstantOpen ==
    /\ pc = "instant_for"
    /\ open_handles' = Acquire(open_handles)
    /\ pc' = "instant_rx"
    /\ UNCHANGED <<input_samples, estimates,
                   instant_scan, start_after_duration, scan_duration, clock, i,
                   scan_start_time, freq, start_time, raw_samples, max_strength,
                   count, results, freq_data_vec, freq_id_map, file, captures,
                   qualifying, tape, run, prev_file>>

\* the rest of the iteration, in a band that ends at last: scan_freq consumed
\* the handle and returned raw after d ticks, the analysis gave strengths
InstantCycleTo(last, raw, strengths, d) ==
    /\ pc = "instant_rx"
    /\ open_handles' = Release(open_handles)
    /\ start_time' = Some(clock)
    /\ clock' = clock + d
    /\ raw_samples' = raw
    /\ max_strength' = MaxBy(strengths)
    /\ results' = InstantInsert(results, count, freq, MaxBy(strengths), Len(raw))
    /\ count' = InstantCount(count, MaxBy(strengths))
    /\ freq' = freq + step
    /\ pc' = IF PastBand(freq + step, last) THEN "instant_finalize" ELSE "instant_for"
    /\ captures' = captures + 1
    /\ qualifying' = Observe(qualifying, freq, AsSecs(clock), AsSecs(clock + d),
                           MaxBy(strengths), Len(raw))
    /\ tape' = Insert(tape, freq, raw)
    /\ UNCHANGED <<input_samples, estimates,
                   instant_scan, start_after_duration, scan_duration, i,
                   scan_start_time, freq_data_vec, freq_id_map, file, run, prev_file>>

\* the iteration in the band of the model
InstantCycle(raw, strengths, d) == InstantCycleTo(end_freq, raw, strengths, d)

\* HackRfOne::new(), a setter, into_rx_mode() or rx() failed: expect() panics,
\* and the unwinding drops the handle
InstantAbort ==
    /\ pc \in {"instant_for", "instant_rx"}
    /\ pc' = "panicked"
    /\ open_handles' = 0
    /\ UNCHANGED <<input_samples, estimates,
                   instant_scan, start_after_duration, scan_duration, clock, i,
                   scan_start_time, freq, start_time, raw_samples, max_strength,
                   count, results, freq_data_vec, freq_id_map, file, captures,
                   qualifying, tape, run, prev_file>>

\* the entry written when nothing was detected
Placeholder == [freq |-> 0, max_strength |-> 0, sample_count |-> 0]

\* WithPlaceholder, were the placeholder written whatever the map holds
WithPlaceholderAlways(map) == Insert(map, "1", Placeholder)

\* if results.is_empty() { results.insert("1", placeholder) }
WithPlaceholder(map) ==
    IF DOMAIN map = {} THEN Insert(map, "1", Placeholder) ELSE map

\* the orders in which a HashMap can be iterated: the order is unspecified and
\* differs from one HashMap to the next
IterationOrders(map) ==
    {o \in [1..Cardinality(DOMAIN map) -> DOMAIN map] :
        \A a, b \in 1..Cardinality(DOMAIN map) : a # b => o[a] # o[b]}

\* serde_json::to_string_pretty: the entries, in the order o
Serialize(map, o) == [k \in 1..Len(o) |-> <<o[k], map[o[k]]>>]

\* the end of run_instant_scan: the placeholder, the serialization, the file
InstantFinalize ==
    /\ pc = "instant_finalize"
    /\ results' = WithPlaceholder(results)
    /\ \E o \in IterationOrders(WithPlaceholder(results)) :
           file' = Some(Serialize(WithPlaceholder(results), o))
    /\ pc' = "done"
    /\ UNCHANGED <<open_handles, input_samples, estimates,
                   instant_scan, start_after_duration, scan_duration, clock, i,
                   scan_start_time, freq, start_time, raw_samples, max_strength,
                   count, freq_data_vec, freq_id_map, captures, qualifying, tape,
                   run, prev_file>>

\* the process is started again in instant mode; the file of the first run is
\* still on disk
Rerun ==
    /\ pc = "done"
    /\ instant_scan
    /\ run = 1
    /\ run' = 2
    /\ prev_file' = file
    /\ pc' = "instant_for"
    /\ freq' = start_freq
    /\ start_time' = None
    /\ raw_samples' = << >>
    /\ max_strength' = None
    /\ count' = 1
    /\ results' = << >>
    /\ captures' = 0
    /\ qualifying' = << >>
    /\ UNCHANGED <<open_handles, input_samples, estimates,
                   instant_scan, start_after_duration, scan_duration, clock, i,
                   scan_start_time, freq_data_vec, freq_id_map, file, tape>>

---------------------------------------------------------------------------
(* run_scan_over_duration *)

\* one pass of the countdown loop: a sleep of one second, which lasts d ticks
Countdown(d) ==
    /\ pc = "countdown"
    /\ i >= 1
    /\ clock' = clock + d
    /\ i' = i - 1
    /\ UNCHANGED <<open_handles, input_samples, estimates,
                   instant_scan, start_after_duration, scan_duration, pc,
                   scan_start_time, freq, start_time, raw_samples, max_strength,
                   count, results, freq_data_vec, freq_id_map, file, captures,
                   qualifying, tape, run, prev_file>>

\* StartScan, were scan_start_time the instant at which the process started
StartScanAtLaunch ==
    /\ pc = "countdown"
    /\ i = 0
    /\ scan_start_time' = 0
    /\ freq_data_vec' = << >>
    /\ freq_id_map' = << >>
    /\ pc' = "while"
    /\ UNCHANGED <<open_handles, input_samples, estimates,
                   instant_scan, start_after_duration, scan_duration, clock, i,
                   freq, start_time, raw_samples, max_strength, count, results,
                   file, captures, qualifying, tape, run, prev_file>>

\* the countdown is over: scan_start_time = Instant::now(), the empty record
\* list and the empty map
StartScan ==
    /\ pc = "countdown"
    /\ i = 0
    /\ scan_start_time' = clock
    /\ freq_data_vec' = << >>
    /\ freq_id_map' = << >>
    /\ pc' = "while"
    /\ UNCHANGED <<open_handles, input_samples, estimates,
                   instant_scan, start_after_duration, scan_duration, clock, i,
                   freq, start_time, raw_samples, max_strength, count, results,
                   file, captures, qualifying, tape, run, prev_file>>

\* WithinBudget, were the loop to stop a second before the budget is spent
WithinBudgetEarly(ticks, secs) == ticks + TicksPerSec < secs * TicksPerSec

\* Instant::now().duration_since(scan_start_time) < Duration::from_secs(scan_duration)
WithinBudget(ticks, secs) == ticks < secs * TicksPerSec

\* BudgetSpent, were the budget tested only between two passes
BudgetSpentNever(ticks, secs) == FALSE

\* Instant::now().duration_since(scan_start_time) >= Duration::from_secs(scan_duration)
BudgetSpent(ticks, secs) == ticks >= secs * TicksPerSec

\* the test of the while loop: another pass over the band, or the end
WhileCheck ==
    /\ pc = "while"
    /\ IF WithinBudget(Elapsed(clock), scan_duration)
       THEN pc' = "for" /\ freq' = start_freq
       ELSE pc' = "finalize" /\ freq' = freq
    /\ UNCHANGED <<open_handles, input_samples, estimates,
                   instant_scan, start_after_duration, scan_duration, clock, i,
                   scan_start_time, start_time, raw_samples, max_strength, count,
                   results, freq_data_vec, freq_id_map, file, captures,
                   qualifying, tape, run, prev_file>>

\* the test before a frequency finds the budget spent: break
Break ==
    /\ pc = "for"
    /\ BudgetSpent(Elapsed(clock), scan_duration)
    /\ pc' = "while"
    /\ UNCHANGED <<open_handles, input_samples, estimates,
                   instant_scan, start_after_duration, scan_duration, clock, i,
                   scan_start_time, freq, start_time, raw_samples, max_strength,
                   count, results, freq_data_vec, freq_id_map, file, captures,
                   qualifying, tape, run, prev_file>>

\* format!("{}-{}", current_time, current_time + 1)
FormatRange(t) == ToString(t) \o "-" \o ToString(t + 1)

\* the record pushed for a frequency seen for the first time
NewRecord(f, max, n, t) ==
    [freq |-> MHz(f), strength |-> max, sample_count |-> n,
     tetra_durations |-> FormatRange(t)]

\* freq_id_map.entry(freq).or_insert_with(..): the map afterwards
EntryMap(map, vec, f) ==
    IF f \in DOMAIN map THEN map ELSE Insert(map, f, Len(vec))

\* EntryVec, were a record pushed at every detection
EntryVecAlways(map, vec, f, max, n, t) == Append(vec, NewRecord(f, max, n, t))

\* freq_id_map.entry(freq).or_insert_with(..): the record list afterwards
EntryVec(map, vec, f, max, n, t) ==
    IF f \in DOMAIN map THEN vec ELSE Append(vec, NewRecord(f, max, n, t))

\* NewDuration, were the latest range to replace the earlier ones
NewDurationReplace(durations_str, t) == FormatRange(t)

\* new_duration, from the record's tetra_durations
NewDuration(durations_str, t) ==
    IF durations_str = "" THEN FormatRange(t)
    ELSE durations_str \o "," \o FormatRange(t)

\* Detect, were a later detection to overwrite the record's strength and
\* sample_count as well
DetectOverwrite(map, vec, f, max, n, t) ==
    LET vec1 == EntryVec(map, vec, f, max, n, t)
        freq_index == EntryMap(map, vec, f)[f]
    IN  [vec1 EXCEPT ![freq_index + 1] =
             [freq |-> @.freq, strength |-> max, sample_count |-> n,
              tetra_durations |-> NewDuration(@.tetra_durations, t)]]

\* lines 187-208: the record list after a capture of f whose peak max is above
\* the threshold (index k of the source is position k + 1 here)
Detect(map, vec, f, max, n, t) ==
    LET vec1 == EntryVec(map, vec, f, max, n, t)
        freq_index == EntryMap(map, vec, f)[f]
    IN  [vec1 EXCEPT ![freq_index + 1].tetra_durations =
             NewDuration(vec1[freq_index + 1].tetra_durations, t)]

\* the start of an iteration of the loop over the band, the budget not being
\* spent: HackRfOne::new() returned the handle
ScheduledOpen ==
    /\ pc = "for"
    /\ ~BudgetSpent(Elapsed(clock), scan_duration)
    /\ open_handles' = Acquire(open_handles)
    /\ pc' = "rx"
    /\ UNCHANGED <<input_samples, estimates,
                   instant_scan, start_after_duration, scan_duration, clock, i,
                   scan_start_time, freq, start_time, raw_samples, max_strength,
                   count, results, freq_data_vec, freq_id_map, file, captures,
                   qualifying, tape, run, prev_file>>

\* the rest of the iteration, in a band that ends at last: scan_freq consumed
\* the handle and returned raw after d ticks, the analysis gave strengths
ScheduledCycleTo(last, raw, strengths, d) ==
    /\ pc = "rx"
    /\ open_handles' = Release(open_handles)
    /\ start_time' = Some(clock)
    /\ clock' = clock + d
    /\ raw_samples' = raw
    /\ max_strength' = MaxBy(strengths)
    /\ IF MaxBy(strengths) # None /\ Qualifies(MaxBy(strengths)[1])
       THEN /\ freq_data_vec' = Detect(freq_id_map, freq_data_vec, freq,
                                       MaxBy(strengths)[1], Len(raw),
                                       AsSecs(Elapsed(clock + d)))
            /\ freq_id_map' = EntryMap(freq_id_map, freq_data_vec, freq)
       ELSE UNCHANGED <<freq_data_vec, freq_id_map>>
    /\ freq' = IF PastBand(freq + step, last) THEN freq ELSE freq + step
    /\ pc' = IF PastBand(freq + step, last) THEN "while" ELSE "for"
    /\ captures' = captures + 1
    /\ qualifying' = Observe(qualifying, freq, AsSecs(Elapsed(clock)),
                             AsSecs(Elapsed(clock + d)), MaxBy(strengths), Len(raw))
    /\ UNCHANGED <<input_samples, estimates,
                   instant_scan, start_after_duration, scan_duration, i,
                   scan_start_time, count, results, file, tape, run, prev_file>>

\* the iteration in the band of the model
ScheduledCycle(raw, strengths, d) == ScheduledCycleTo(end_freq, raw, strengths, d)

\* Enumerate, were the placeholder of the instant sweep written for no record
EnumerateOrPlaceholder(vec) ==
    IF vec = << >> THEN << <<"1", Placeholder>> >>
    ELSE [k \in 1..Len(vec) |-> <<ToString(k - 1), vec[k]>>]

\* freq_data_vec.into_iter().enumerate().map(|(id, data)| (id.to_string(), data))
Enumerate(vec) == [k \in 1..Len(vec) |-> <<ToString(k - 1), vec[k]>>]

\* ScheduledAbort, were the records gathered so far written out on a failure
ScheduledAbortFlush ==
    /\ \/ pc = "for" /\ ~BudgetSpent(Elapsed(clock), scan_duration)
       \/ pc = "rx"
    /\ pc' = "panicked"
    /\ open_handles' = 0
    /\ file' = Some(Enumerate(freq_data_vec))
    /\ UNCHANGED <<input_samples, estimates,
                   instant_scan, start_after_duration, scan_duration, clock, i,
                   scan_start_time, freq, start_time, raw_samples, max_strength,
                   count, results, freq_data_vec, freq_id_map, captures,
                   qualifying, tape, run, prev_file>>

\* HackRfOne::new(), a setter, into_rx_mode() or rx() failed: expect() panics,
\* and the unwinding drops the handle
ScheduledAbort ==
    /\ \/ pc = "for" /\ ~BudgetSpent(Elapsed(clock), scan_duration)
       \/ pc = "rx"
    /\ pc' = "panicked"
    /\ open_handles' = 0
    /\ UNCHANGED <<input_samples, estimates,
                   instant_scan, start_after_duration, scan_duration, clock, i,
                   scan_start_time, freq, start_time, raw_samples, max_strength,
                   count, results, freq_data_vec, freq_id_map, file, captures,
                   qualifying, tape, run, prev_file>>

\* the end of run_scan_over_duration: the records under their indices, the file
ScheduledFinalize ==
    /\ pc = "finalize"
    /\ file' = Some(Enumerate(freq_data_vec))
    /\ pc' = "done"
    /\ UNCHANGED <<open_handles, input_samples, estimates,
                   instant_scan, start_after_duration, scan_duration, clock, i,
                   scan_start_time, freq, start_time, raw_samples, max_strength,
                   count, results, freq_data_vec, freq_id_map, captures,
                   qualifying, tape, run, prev_file>>

---------------------------------------------------------------------------
(* The program with the source's analysis: byte samples through analyze_samples *)

Next ==
    \/ InstantOpen
    \/ \E raw \in SampleBuffers, d \in Latencies :
           /\ InstantCycle(raw, analyze_samples(raw), d)
           /\ run = 2 => raw = tape[freq]
    \/ InstantAbort
    \/ InstantFinalize
    \/ Rerun
    \/ \E d \in Latencies : Countdown(d)
    \/ StartScan
    \/ WhileCheck
    \/ Break
    \/ ScheduledOpen
    \/ \E raw \in SampleBuffers, d \in Latencies :
           ScheduledCycle(raw, analyze_samples(raw), d)
    \/ ScheduledAbort
    \/ ScheduledFinalize

Spec == Init /\ [][Next]_vars

---------------------------------------------------------------------------
(* The two sweeps under any analysis.  With byte samples no estimate is    *)
(* above 20 * log10(255) = 48.13, so under Spec the branch `max > 49.0` of *)
(* either sweep is never taken.  SpecEstimates runs the same actions with  *)
(* the estimates of a capture drawn from EstimateValues, which holds the   *)
(* largest estimate of a byte, the threshold itself and two values above   *)
(* it: it is the code of the sweeps for every Vec<f64> the analysis could  *)
(* hand them, and the specification of the claims about detections.        *)

EstimateValues == {48130, 49000, 50000, 51000}

\* the buffers of each length (their bytes do not matter to the sweeps)
ZeroBuffers == {[k \in 1..n |-> 0] : n \in BufferLengths}

NextEstimates ==
    \/ InstantOpen
    \/ \E raw \in ZeroBuffers, d \in Latencies :
           \E strengths \in [1..Len(raw) -> EstimateValues] :
               InstantCycle(raw, strengths, d)
    \/ InstantAbort
    \/ InstantFinalize
    \/ \E d \in Latencies : Countdown(d)
    \/ StartScan
    \/ WhileCheck
    \/ Break
    \/ ScheduledOpen
    \/ \E raw \in ZeroBuffers, d \in Latencies :
           \E strengths \in [1..Len(raw) -> EstimateValues] :
               ScheduledCycle(raw, strengths, d)
    \/ ScheduledAbort
    \/ ScheduledFinalize

SpecEstimates == Init /\ [][NextEstimates]_vars

---------------------------------------------------------------------------
(* The program on the whole band of the source, 380 MHz to 420 MHz.  The   *)
(* instant sweep makes 41 captures; to keep their histories apart from     *)
(* growing with the band, the adapter returns the same buffer, one sample  *)
(* of full scale, at every frequency of the instant sweep.  The process    *)
(* runs on as long as it has a step to take: no call blocks for ever       *)
(* (weak fairness of the next-state action).                               *)

\* the buffer of every capture of the instant sweep on the whole band
FullScaleBuffer == <<255>>

NextFullBand ==
    \/ InstantOpen
    \/ \E d \in Latencies :
           InstantCycleTo(full_end_freq, FullScaleBuffer,
                          analyze_samples(FullScaleBuffer), d)
    \/ InstantAbort
    \/ InstantFinalize
    \/ \E d \in Latencies : Countdown(d)
    \/ StartScan
    \/ WhileCheck
    \/ Break
    \/ ScheduledOpen
    \/ \E raw \in SampleBuffers, d \in Latencies :
           ScheduledCycleTo(full_end_freq, raw, analyze_samples(raw), d)
    \/ ScheduledAbort
    \/ ScheduledFinalize

SpecFullBand == Init /\ [][NextFullBand]_vars /\ WF_vars(NextFullBand)

---------------------------------------------------------------------------
(* analyze_samples called on its own, on every sequence of at most          *)
(* MaxAnalyzeLen samples of AnalyzeBytes                                    *)

\* the samples of the arguments: zero, the smallest and the largest non-zero
\* byte, and two bytes whose estimate is a whole number of dB
AnalyzeBytes == {0, 1, 10, 100, 255}

AnalyzeInputs == UNION {[1..n -> AnalyzeBytes] : n \in 0..MaxAnalyzeLen}

InitAnalyze ==
    /\ input_samples \in AnalyzeInputs
    /\ estimates = None
    /\ pc = "analyze"
    /\ instant_scan = TRUE
    /\ start_after_duration = 0
    /\ scan_duration = 0
    /\ clock = 0
    /\ i = 0
    /\ scan_start_time = 0
    /\ freq = start_freq
    /\ start_time = None
    /\ raw_samples = << >>
    /\ max_strength = None
    /\ count = 1
    /\ results = << >>
    /\ freq_data_vec = << >>
    /\ freq_id_map = << >>
    /\ file = None
    /\ captures = 0
    /\ qualifying = << >>
    /\ tape = << >>
    /\ run = 1
    /\ prev_file = None
    /\ open_handles = 0

\* the call: the result is the list of the samples' estimates
Analyze ==
    /\ pc = "analyze"
    /\ estimates' = Some(analyze_samples(input_samples))
    /\ pc' = "analyzed"
    /\ UNCHANGED <<open_handles, input_samples,
                   instant_scan, start_after_duration, scan_duration, clock, i,
                   scan_start_time, freq, start_time, raw_samples, max_strength,
                   count, results, freq_data_vec, freq_id_map, file, captures,
                   qualifying, tape, run, prev_file>>

NextAnalyze == Analyze

SpecAnalyze == InitAnalyze /\ [][NextAnalyze]_vars

---------------------------------------------------------------------------
(* Vocabulary of the claims *)

\* the document of the file, once written
Exported == file[1]

\* the qualifying captures of frequency f, in order
QualifyingOf(f) == SelectSeq(qualifying, LAMBDA e : e.freq = f)

\* "t-(t+1)"
RangeText(t) == ToString(t) \o "-" \o ToString(t + 1)

\* the comma-joined ranges of the captures of a list, one range per capture
RECURSIVE JoinRanges(_)
JoinRanges(events) ==
    IF events = << >> THEN ""
    ELSE IF Len(events) = 1 THEN RangeText(events[1].t)
    ELSE JoinRanges(SubSeq(events, 1, Len(events) - 1)) \o ","
         \o RangeText(events[Len(events)].t)

\* the frequencies that have a qualifying capture
QualifyingFreqs == {qualifying[k].freq : k \in 1..Len(qualifying)}

\* the record of frequency f in the scheduled sweep's record list
RecordOf(f) == freq_data_vec[freq_id_map[f] + 1]

---------------------------------------------------------------------------
(* C1 *)

---------------------------------------------------------------------------
(* C2 *)

---------------------------------------------------------------------------
(* C3 *)

\* C3: scheduled mode never stops early: whenever the repeating phase has
\* ended (the result is about to be, or has been, finalized), the time elapsed
\* since the phase began is at least scan_duration.
C3_NeverStopsEarly ==
    (~instant_scan /\ pc \in {"finalize", "done"}) =>
        Elapsed(clock) >= scan_duration * TicksPerSec

\* a sweep of at least two seconds and two captures has been finalized
C3_Witness ==
    /\ ~instant_scan
    /\ pc = "done"
    /\ scan_duration >= 2
    /\ captures >= 2

---------------------------------------------------------------------------
(* C4 *)

\* C4: in scheduled mode no capture starts once the elapsed time has reached
\* scan_duration; hence a sweep whose last capture lasted exactly one
\* capture-duration ends no later than scan_duration plus one capture-duration.
C4_OverrunAtMostOneCapture ==
    (~instant_scan /\ start_time # None) =>
        /\ Elapsed(start_time[1]) < scan_duration * TicksPerSec
        /\ (clock - start_time[1] = duration_secs * TicksPerSec) =>
               Elapsed(clock) <= (scan_duration + duration_secs) * TicksPerSec

\* a sweep ended in the middle of a pass, past its budget, after a last capture
\* of exactly one capture-duration
C4_Witness ==
    /\ ~instant_scan
    /\ pc = "done"
    /\ captures % (BandSteps + 1) # 0
    /\ start_time # None
    /\ clock - start_time[1] = duration_secs * TicksPerSec
    /\ Elapsed(clock) > scan_duration * TicksPerSec

---------------------------------------------------------------------------
(* C5 *)

\* the detection entries of the instant sweep's map (all but the placeholder)
DetectionKeys == {k \in DOMAIN results : "strength" \in DOMAIN results[k]}

\* C5: the document of an instant sweep in which no capture qualified has
\* exactly one entry, {freq: 0, max_strength: 0, sample_count: 0} under key "1";
\* the document of one in which a capture qualified has no such entry.
C5_PlaceholderIffNoDetection ==
    (instant_scan /\ pc = "done") =>
        IF qualifying = << >>
        THEN Exported = << <<"1", [freq |-> 0, max_strength |-> 0, sample_count |-> 0]>> >>
        ELSE \A k \in 1..Len(Exported) :
                 Exported[k][2] # [freq |-> 0, max_strength |-> 0, sample_count |-> 0]

\* an instant sweep of the whole band ended without a qualifying capture
C5_Witness ==
    /\ instant_scan
    /\ pc = "done"
    /\ captures = BandSteps + 1
    /\ qualifying = << >>
    /\ Len(Exported) = 1

---------------------------------------------------------------------------
(* C6 *)

\* the frequencies, in MHz, for which the sweep holds a detection record
RecordedMHz ==
    IF instant_scan THEN {results[k].freq : k \in DetectionKeys}
    ELSE {freq_data_vec[k].freq : k \in 1..Len(freq_data_vec)}

\* in every state the recorded frequencies are those with a peak above 49.0
C6_RecordIffAbove ==
    /\ RecordedMHz = {MHz(f) : f \in QualifyingFreqs}
    /\ ~instant_scan => DOMAIN freq_id_map = QualifyingFreqs

\* a capture whose peak is exactly 49.0 leaves the records as they are
C6_AtThresholdNoRecord ==
    (captures' = captures + 1 /\ max_strength' = Some(49000)) =>
        UNCHANGED <<results, count, freq_data_vec, freq_id_map>>

\* C6: in both modes a detection record exists for a frequency if and only if
\* a capture of that frequency had a peak strictly above 49.0, and a capture
\* whose peak is exactly 49.0 creates or extends no record.
C6_StrictThreshold == [](C6_RecordIffAbove) /\ [][C6_AtThresholdNoRecord]_vars

\* the last capture peaked at exactly 49.0 and its frequency has no record,
\* while another frequency has one
C6_Witness ==
    /\ captures >= 2
    /\ max_strength = Some(49000)
    /\ QualifyingFreqs # {}
    /\ \E f \in Band \ QualifyingFreqs : MHz(f) \notin RecordedMHz

---------------------------------------------------------------------------
(* C7 *)

\* a step is a capture that returned an empty buffer
EmptyCapture == captures' = captures + 1 /\ raw_samples' = << >>

\* C7: in both modes a capture that returns an empty buffer yields no estimate
\* and no peak, records nothing, is no failure, and the sweep goes on with the
\* next frequency (or, after the last one, with the end of the pass).
C7_EmptyCaptureIsNoDetection ==
    [][EmptyCapture =>
          /\ analyze_samples(raw_samples') = << >>
          /\ max_strength' = None
          /\ UNCHANGED <<results, count, freq_data_vec, freq_id_map, qualifying, file>>
          /\ pc' # "panicked"
          /\ IF freq + step > end_freq
             THEN pc' \in {"instant_finalize", "while"}
             ELSE pc' \in {"instant_for", "for"} /\ freq' = freq + step]_vars

\* an empty capture has been made and the sweep is at the next frequency
C7_Witness ==
    /\ captures >= 1
    /\ raw_samples = << >>
    /\ max_strength = None
    /\ pc \in {"instant_for", "for"}
    /\ freq = start_freq + step

---------------------------------------------------------------------------
(* C8 *)

\* C8: in both modes, once the device has failed the sweep is over: nothing
\* runs after the panic (no capture, no retry) and no document is written, not
\* even for the detections recorded before the failure.
C8_FailFast ==
    /\ [](pc = "panicked" => file = None)
    /\ [][pc = "panicked" => (pc' = pc /\ captures' = captures /\ file' = file)]_vars

\* the device failed after a detection was recorded, and no file exists
C8_Witness ==
    /\ pc = "panicked"
    /\ ~instant_scan
    /\ freq_data_vec # << >>
    /\ captures >= 1
    /\ file = None

---------------------------------------------------------------------------
(* C9 *)

\* C9: a second run of instant mode in which the adapter returns, for each
\* frequency, the samples it returned in the first run writes the document the
\* first run wrote: the same keys, in the same order, with the same values.
C9_RerunSameDocument ==
    (instant_scan /\ run = 2 /\ pc = "done") => file = prev_file

\* both runs swept the whole band and wrote their documents
C9_Witness ==
    /\ instant_scan
    /\ run = 2
    /\ pc = "done"
    /\ captures = BandSteps + 1
    /\ prev_file # None
    /\ \A f \in Band : f \in DOMAIN tape

---------------------------------------------------------------------------
(* C10 *)

\* C10: in instant mode the keys of the detection entries are "1".."n", the
\* k-th qualifying capture of the pass is the entry of key k (one entry per
\* qualifying capture, none merged), and the keys increase with the frequency.
C10_KeysInEncounterOrder ==
    instant_scan =>
        /\ DetectionKeys = {ToString(k) : k \in 1..Len(qualifying)}
        /\ count = Len(qualifying) + 1
        /\ \A k \in 1..Len(qualifying) :
               results[ToString(k)] =
                   [freq |-> MHz(qualifying[k].freq),
                    strength |-> qualifying[k].strength,
                    sample_count |-> qualifying[k].sample_count]
        /\ \A j, k \in 1..Len(qualifying) :
               j < k => results[ToString(j)].freq < results[ToString(k)].freq
        /\ (pc = "done" /\ qualifying # << >>) =>
               {Exported[k] : k \in 1..Len(Exported)} =
                   {<<ToString(k), results[ToString(k)]>> : k \in 1..Len(qualifying)}

\* an instant sweep with two qualifying captures has written its document
C10_Witness ==
    /\ instant_scan
    /\ pc = "done"
    /\ Len(qualifying) = 2
    /\ Len(Exported) = 2

---------------------------------------------------------------------------
(* C11 *)

\* the position, among the qualifying captures, of the first one of frequency f
FirstSeen(f) ==
    CHOOSE k \in 1..Len(qualifying) :
        /\ qualifying[k].freq = f
        /\ \A j \in 1..(k - 1) : qualifying[j].freq # f

---------------------------------------------------------------------------
(* C12 *)

\* 20 * log10(v) in thousandths of a dB, for the non-zero bytes of AnalyzeBytes:
\* 10 ^ (dB / 20) is v (for 255, 10 ^ 2.4065 = 254.97 and 10 ^ 2.40655 = 255.0004)
TwentyLog10(v) ==
    CASE v = 1 -> 0 [] v = 10 -> 20000 [] v = 100 -> 40000 [] v = 255 -> 48130

\* C12: for every byte sequence s, analyze_samples(s) has the length of s and
\* its k-th element is determined by s[k] alone: 0.0 if s[k] = 0, and
\* 20 * log10(s[k]) otherwise; analyze([]) = [], analyze([0]) = [0.0] and
\* analyze([100]) = [40.0].
C12_PointwiseEstimates ==
    pc = "analyzed" =>
        /\ Len(estimates[1]) = Len(input_samples)
        /\ \A k \in 1..Len(input_samples) :
               estimates[1][k] = IF input_samples[k] = 0 THEN 0
                                 ELSE TwentyLog10(input_samples[k])
        /\ input_samples = << >> => estimates[1] = << >>
        /\ input_samples = <<0>> => estimates[1] = <<0>>
        /\ input_samples = <<100>> => estimates[1] = <<40000>>

\* the function was applied to a sequence with a zero and two non-zero bytes
C12_Witness ==
    /\ pc = "analyzed"
    /\ input_samples = <<0, 100, 255>>
    /\ estimates = Some(<<0, 40000, 48130>>)

---------------------------------------------------------------------------
(* C13 *)

\* the string str begins with the string pre
StartsWith(str, pre) == Len(str) >= Len(pre) /\ SubSeq(str, 1, Len(pre)) = pre

\* the string str ends with the string suf
EndsWith(str, suf) ==
    Len(str) >= Len(suf) /\ SubSeq(str, Len(str) - Len(suf) + 1, Len(str)) = suf

---------------------------------------------------------------------------
(* C14 *)

\* a step of the instant sweep is a capture: it is the capture of the next
\* frequency of the band in ascending order, one not captured before
C14_NextFrequencyInOrder ==
    (instant_scan /\ captures' = captures + 1) =>
        LET f == 380000000 + captures * 1000000
        IN  /\ freq = f
            /\ f <= 420000000
            /\ f \notin DOMAIN tape
            /\ DOMAIN tape' = DOMAIN tape \cup {f}

\* the instant sweep is in its loop until it has made its 41 captures, and is
\* finalized only after them
C14_FinalizedAfterLast ==
    instant_scan =>
        /\ captures <= 41
        /\ pc \in {"instant_for", "instant_rx"} => captures < 41
        /\ pc \in {"instant_finalize", "done"} =>
               /\ captures = 41
               /\ {MHz(f) : f \in DOMAIN tape} = 380..420
        /\ file # None => pc = "done"

\* C14: instant mode makes a single linear pass: every frequency from 380 MHz
\* to 420 MHz in 1 MHz steps is captured exactly once, in ascending order,
\* whatever the time the captures take, and the result is finalized only after
\* the capture of 420 MHz.
C14_SingleLinearPass ==
    [](C14_FinalizedAfterLast) /\ [][C14_NextFrequencyInOrder]_vars

\* an instant sweep of the 41 frequencies, some of whose captures took more
\* than a second, has written its document
C14_Witness ==
    /\ instant_scan
    /\ pc = "done"
    /\ captures = 41
    /\ clock > 41 * TicksPerSec

---------------------------------------------------------------------------
(* C15 *)

\* C15: in scheduled mode records and their interval lists are append-only:
\* across every step the number of records does not decrease, a record keeps
\* its index and its freq, and the previous value of its duration string is a
\* prefix of the new one; a qualifying capture of a frequency that has a record
\* extends the string by a comma and the new range, whatever ranges it holds.
C15_AppendOnly ==
    [][~instant_scan =>
          /\ Len(freq_data_vec') >= Len(freq_data_vec)
          /\ \A f \in DOMAIN freq_id_map :
                 /\ f \in DOMAIN freq_id_map'
                 /\ freq_id_map'[f] = freq_id_map[f]
          /\ \A k \in 1..Len(freq_data_vec) :
                 /\ freq_data_vec'[k].freq = freq_data_vec[k].freq
                 /\ StartsWith(freq_data_vec'[k].tetra_durations,
                               freq_data_vec[k].tetra_durations)
          /\ (Len(qualifying') > Len(qualifying) /\ freq \in DOMAIN freq_id_map) =>
                 freq_data_vec'[freq_id_map[freq] + 1].tetra_durations =
                     RecordOf(freq).tetra_durations \o ","
                         \o RangeText(AsSecs(Elapsed(clock')))]_vars

\* the record of a frequency detected in two passes holds the range of its
\* first detection twice, then the range of the second
C15_Witness ==
    /\ ~instant_scan
    /\ \E f \in QualifyingFreqs :
           /\ f \in DOMAIN freq_id_map
           /\ Len(QualifyingOf(f)) = 2
           /\ RecordOf(f).tetra_durations = "1-2,1-2,3-4"

---------------------------------------------------------------------------
(* C16 *)

\* at most one handle is open, and one is open exactly while a capture is in
\* progress
C16_AtMostOneHandle ==
    /\ open_handles \in {0, 1}
    /\ open_handles = 1 <=> pc \in {"instant_rx", "rx"}

\* a handle is opened only when none is open, a capture consumes and releases
\* the handle opened for it, and the records change only in a step that ends
\* with no handle open
C16_ReleasedBeforeNext ==
    /\ open_handles' > open_handles => open_handles = 0
    /\ captures' = captures + 1 => (open_handles = 1 /\ open_handles' = 0)
    /\ <<results, count, freq_data_vec, freq_id_map>>' #
           <<results, count, freq_data_vec, freq_id_map>> => open_handles' = 0

\* C16: at every point of a sweep at most one device handle is open and at
\* most one capture is in progress; the handle opened for a frequency is
\* consumed and released by that frequency's capture before the next handle is
\* opened, and the aggregator is written only between captures.
C16_OneHandleOneCapture ==
    [](C16_AtMostOneHandle) /\ [][C16_ReleasedBeforeNext]_vars

\* after a capture that recorded a detection, the handle of the next
\* frequency is open
C16_Witness ==
    /\ open_handles = 1
    /\ captures >= 1
    /\ qualifying # << >>
    /\ freq = start_freq + step

---------------------------------------------------------------------------
(* C17 *)

\* while the countdown runs nothing is opened or captured; once it is over all
\* its sleeps have been made, the time they took lies before scan_start_time,
\* and a sweep that ended has lasted the countdown plus the whole budget
C17_CountdownFirst ==
    ~instant_scan =>
        /\ pc = "countdown" =>
               captures = 0 /\ open_handles = 0 /\ start_time = None
        /\ pc # "countdown" =>
               /\ i = 0
               /\ scan_start_time >= start_after_duration * TicksPerSec
               /\ start_after_duration = 0 => scan_start_time = 0
        /\ start_time # None => start_time[1] >= scan_start_time
        /\ pc \in {"finalize", "done"} =>
               clock >= (start_after_duration + scan_duration) * TicksPerSec

\* the step that ends the countdown takes the instant from which the elapsed
\* time is measured
C17_StartAtEndOfCountdown ==
    (pc = "countdown" /\ pc' # "countdown") =>
        (i = 0 /\ scan_start_time' = clock /\ clock' = clock)

\* C17: in scheduled mode the countdown of start_after_duration one-second
\* sleeps completes before the first capture and the elapsed time is measured
\* from its end, so that the countdown consumes none of scan_duration; with
\* start_after_duration = 0 the repeating phase starts at once.
C17_BudgetStartsAfterCountdown ==
    [](C17_CountdownFirst) /\ [][C17_StartAtEndOfCountdown]_vars

\* a sweep with a countdown of one sleep and at least one capture has ended
C17_Witness ==
    /\ ~instant_scan
    /\ pc = "done"
    /\ start_after_duration = 1
    /\ scan_start_time > TicksPerSec
    /\ captures >= 1

---------------------------------------------------------------------------
(* C18 *)

\* C18: the peak of the estimates of a buffer of bytes is at most
\* 20 * log10(255) = 48.13, below the threshold 49.0; hence no capture ever
\* qualifies: the instant sweep exports the placeholder entry alone and the
\* scheduled sweep never creates a record.
C18_NoCaptureQualifies ==
    /\ \A k \in 1..Len(raw_samples) :
           analyze_samples(raw_samples)[k] <= 48130
    /\ max_strength # None =>
           (max_strength[1] <= 48130 /\ max_strength[1] < 49000)
    /\ qualifying = << >>
    /\ DetectionKeys = {}
    /\ freq_data_vec = << >>
    /\ freq_id_map = << >>
    /\ (instant_scan /\ pc = "done") =>
           Exported = << <<"1", [freq |-> 0, max_strength |-> 0, sample_count |-> 0]>> >>
    /\ (~instant_scan /\ pc = "done") => Exported = << >>

\* an instant sweep whose last capture returned bytes of full scale has
\* written the placeholder
C18_Witness ==
    /\ instant_scan
    /\ pc = "done"
    /\ raw_samples = <<255, 255>>
    /\ max_strength = Some(48130)
    /\ Len(Exported) = 1

---------------------------------------------------------------------------
(* C19 *)

\* C19: a scheduled sweep with no qualifying capture exports the empty
\* mapping, without a placeholder; with scan_duration = 0 no device is opened,
\* no capture is made, and the exported mapping is empty.
C19_EmptyMappingWithoutDetection ==
    ~instant_scan =>
        /\ (file # None /\ qualifying = << >>) => Exported = << >>
        /\ scan_duration = 0 =>
               /\ open_handles = 0
               /\ captures = 0
               /\ start_time = None
               /\ pc \in {"countdown", "while", "finalize", "done"}
               /\ file # None => Exported = << >>

\* a scheduled sweep that made captures, none of them qualifying, has
\* written an empty document
C19_Witness ==
    /\ ~instant_scan
    /\ pc = "done"
    /\ scan_duration >= 1
    /\ captures >= 1
    /\ max_strength = Some(49000)
    /\ qualifying = << >>
    /\ file = Some(<< >>)

---------------------------------------------------------------------------
(* C20 *)

\* the captures begun so far: those that returned and the one in progress
CapturesBegun == captures + open_handles

\* the instant sweep ends after exactly 41 captures; the scheduled sweep never
\* begins more than scan_duration captures
C20_BoundedCaptures ==
    /\ instant_scan => CapturesBegun <= 41
    /\ (instant_scan /\ pc = "done") => captures = 41
    /\ ~instant_scan => CapturesBegun <= scan_duration

\* C20: every sweep in which each capture returns (none fails, none blocks for
\* ever) eventually ends with its document written: the instant sweep after
\* exactly 41 captures, the scheduled sweep after at most scan_duration
\* captures.
C20_SweepTerminates ==
    /\ [](C20_BoundedCaptures)
    /\ [](pc # "panicked") => <>(pc = "done" /\ file # None)

\* a scheduled sweep of at least two seconds has ended after as many captures
\* as its budget has seconds
C20_Witness ==
    /\ ~instant_scan
    /\ pc = "done"
    /\ file # None
    /\ scan_duration >= 2
    /\ captures = scan_duration

====
